---- MODULE Spec2Model ----
(***************************************************************************)
(* pyreadr's write path: the column classifier, the tag-to-primitive map,  *)
(* the value transformer (pyreadr/_pyreadr_writer.py) and the two write    *)
(* operations that validate their arguments and run PyreadrWriter.write_r  *)
(* (pyreadr/pyreadr.py).                                                   *)
(*                                                                         *)
(* A value is a record [t, v]: t is the runtime type of the Python object  *)
(* and v an integer payload.  A Series is [dtype, vals]; a data frame is   *)
(* [index, columns, data], its index the record [kind, labels].            *)
(***************************************************************************)
EXTENDS Integers, Sequences, FiniteSets, TLC

VARIABLES pc, args, df, df_in, pyreadr_types, hasmissing, librdata_types,
          calls, indx, tcol, row_indx, err

vars == <<pc, args, df, df_in, pyreadr_types, hasmissing, librdata_types,
          calls, indx, tcol, row_indx, err>>

\* Bounds of the model.
MaxRows == 2
MaxCols == 2
MaxCells == 4

(***************************************************************************)
(* Configuration: module-level constants of _pyreadr_writer.py             *)
(***************************************************************************)
\* Both the dtype objects and the scalar types are members; a dtype is named
\* "int32" and the scalar type of an element "np.int32".
int_types == {"int32", "int16", "int8", "uint8", "uint16",
              "np.int32", "np.int16", "np.int8", "np.uint8", "np.uint16"}

\* np.dtype('float') is float64 and np.float is the builtin float.
float_types == {"int64", "uint64", "uint32", "float64",
                "np.int64", "np.uint64", "np.uint32", "float"}

pyreadr_to_librdata_types ==
    [t \in {"INTEGER", "NUMERIC", "LOGICAL", "CHARACTER", "OBJECT", "DATE", "DATETIME"} |->
        CASE t = "INTEGER" -> "INTEGER"
          [] t = "NUMERIC" -> "NUMERIC"
          [] t = "LOGICAL" -> "LOGICAL"
          [] t = "CHARACTER" -> "CHARACTER"
          [] t = "OBJECT" -> "CHARACTER"
          [] t = "DATE" -> "CHARACTER"
          [] t = "DATETIME" -> "CHARACTER"]

\* -2147483648, written so that every subterm is a 32-bit integer.
librdata_min_integer == -2147483647 - 1

(***************************************************************************)
(* Values                                                                  *)
(***************************************************************************)
Val(t, v) == [t |-> t, v |-> v]

None == Val("NoneType", 0)
NaN == Val("nan", 0)
NaT == Val("NaT", 0)

\* pd.isna / pd.notnull on one element
IsNa(x) == x.t \in {"NoneType", "nan", "NaT"}

\* The runtime types the model's values have, in a fixed order.
TypeNames == <<"NoneType", "nan", "NaT", "np.int32", "np.int64", "np.float64",
               "np.bool_", "Timestamp", "Timedelta", "int", "float", "bool",
               "str", "date", "datetime", "Unprintable">>

TypeNo(t) == CHOOSE i \in 1..Len(TypeNames) : TypeNames[i] = t

\* str(x): the text of a value, one text per (type, payload); a str is itself.
\* An object whose __str__ raises has no text.
StrRaises(x) == x.t = "Unprintable"

Str(x) == IF x.t = "str" THEN x ELSE Val("str", 100 * TypeNo(x.t) + x.v)

\* x.strftime(fmt): one text per (format, type, payload).
FormatNo(fmt) == IF fmt = "%Y-%m-%d" THEN 1 ELSE 2

Strftime(x, fmt) == Val("str", 10000 * FormatNo(fmt) + 100 * TypeNo(x.t) + x.v)

\* numpy's astype(np.int32) on one element.  Every payload of the model is a
\* 32-bit integer already, so narrowing keeps the number; the element becomes
\* an np.int32 (a bool True becomes 1).
AsInt32(x) == Val("np.int32", x.v)

\* ndarray.tolist() on one element of an array of the given dtype: the
\* elements of an object array are handed over as they are, those of a
\* numeric array become Python scalars.
ToPython(dtype, x) ==
    IF dtype = "object" \/ IsNa(x) THEN x
    ELSE CASE x.t \in {"np.int32", "np.int64"} -> Val("int", x.v)
           [] x.t = "np.float64" -> Val("float", x.v)
           [] x.t = "np.bool_" -> Val("bool", x.v)
           [] OTHER -> x

ToList(s) == [i \in 1..Len(s.vals) |-> ToPython(s.dtype, s.vals[i])]

(***************************************************************************)
(* Series and data frames                                                  *)
(***************************************************************************)
\* Labels of the three kinds of index the model draws: the default
\* RangeIndex 0..n-1, an integer index without the label 0, and an index of
\* non-integer labels.
IndexKinds == {"RangeIndex", "Int64Index", "Index"}

MakeIndex(kind, n) ==
    [kind |-> kind,
     labels |-> [i \in 1..n |-> IF kind = "Int64Index" THEN i ELSE i - 1]]

\* Name of the column at position j (1-based): distinct, and not the position.
ColName(j) == 10 * j

\* df[col_name] as a labelled Series, j the column's position.
Column(frame, j) ==
    [index |-> frame.index, dtype |-> frame.data[j].dtype, vals |-> frame.data[j].vals]

NRows(frame) == Len(frame.index.labels)
NCols(frame) == Len(frame.columns)

\* Position of a column name in df.columns
ColPos(frame, name) == CHOOSE j \in 1..NCols(frame) : frame.columns[j] = name

\* Series.dropna(): the entries that are not missing, with their labels.
DropNa(s) ==
    LET keep == SelectSeq([i \in 1..Len(s.vals) |-> i], LAMBDA i : ~IsNa(s.vals[i]))
    IN [index |-> [kind |-> s.index.kind,
                   labels |-> [k \in 1..Len(keep) |-> s.index.labels[keep[k]]]],
        dtype |-> s.dtype,
        vals |-> [k \in 1..Len(keep) |-> s.vals[keep[k]]]]

\* Series.__getitem__(0): by label when the index holds integers (KeyError
\* when no entry is labelled 0), by position otherwise (IndexError when empty).
GetItem0(s) ==
    IF s.index.kind \in {"RangeIndex", "Int64Index"}
    THEN IF \E i \in 1..Len(s.vals) : s.index.labels[i] = 0
         THEN [ok |-> TRUE,
               val |-> s.vals[CHOOSE i \in 1..Len(s.vals) : s.index.labels[i] = 0]]
         ELSE [ok |-> FALSE, val |-> None]
    ELSE IF Len(s.vals) > 0
         THEN [ok |-> TRUE, val |-> s.vals[1]]
         ELSE [ok |-> FALSE, val |-> None]

(***************************************************************************)
(* get_pyreadr_column_types                                                *)
(***************************************************************************)
Classified(tag, missing) == [ok |-> TRUE, tag |-> tag, has_missing |-> missing]
ClassifyRaises == [ok |-> FALSE, tag |-> "", has_missing |-> FALSE]

\* lines 83-96: the tag of a homogeneous object column from its elements' type
TagOfRuntimeType(curtype) ==
    IF curtype \in int_types THEN "INTEGER"
    ELSE IF curtype \in float_types THEN "NUMERIC"
    ELSE IF curtype = "bool" THEN "LOGICAL"
    ELSE IF curtype = "str" THEN "CHARACTER"
    ELSE IF curtype = "date" THEN "DATE"
    ELSE IF curtype = "datetime" THEN "DATETIME"
    ELSE "OBJECT"

\* lines 68-72 and 77-81: the reference type is that of col[0]; the column is
\* OBJECT when some entry has another type.
ByReference(col, missing) ==
    LET first == GetItem0(col)
    IN IF ~first.ok THEN ClassifyRaises
       ELSE IF \E i \in 1..Len(col.vals) : col.vals[i].t # first.val.t
            THEN Classified("OBJECT", missing)
            ELSE Classified(TagOfRuntimeType(first.val.t), missing)

\* lines 62-96: a column of dtype object
ClassifyObjectColumn(s) ==
    IF \E i \in 1..Len(s.vals) : IsNa(s.vals[i])
    THEN LET col == DropNa(s)
         IN IF Len(col.vals) > 0
            THEN ByReference(col, TRUE)
            ELSE Classified("LOGICAL", TRUE)
    ELSE ByReference(s, FALSE)

\* lines 50-100: one turn of the loop, s the column and s.dtype its col_type
ClassifyColumn(s) ==
    IF s.dtype \in int_types THEN Classified("INTEGER", FALSE)
    ELSE IF s.dtype \in float_types THEN Classified("NUMERIC", FALSE)
    ELSE IF s.dtype = "bool" THEN Classified("LOGICAL", FALSE)
    ELSE IF s.dtype = "datetime64[ns]"
         THEN Classified("DATETIME", \E i \in 1..Len(s.vals) : IsNa(s.vals[i]))
    ELSE IF s.dtype = "object" THEN ClassifyObjectColumn(s)
    ELSE Classified("OBJECT", FALSE)

\* The whole function: it raises when the classification of a column raises,
\* and otherwise returns the tags by column name and the missing flags by
\* position.
get_pyreadr_column_types(frame) ==
    LET one == [j \in 1..NCols(frame) |-> ClassifyColumn(Column(frame, j))]
    IN IF \E j \in 1..NCols(frame) : ~one[j].ok
       THEN [ok |-> FALSE, result |-> <<>>, has_missing_values |-> <<>>]
       ELSE [ok |-> TRUE,
             result |-> [name \in {frame.columns[j] : j \in 1..NCols(frame)} |->
                            one[ColPos(frame, name)].tag],
             has_missing_values |-> [j \in 1..NCols(frame) |-> one[j].has_missing]]

(***************************************************************************)
(* pyreadr_types_to_librdata_types                                         *)
(***************************************************************************)
pyreadr_types_to_librdata_types(types) ==
    [name \in DOMAIN types |-> pyreadr_to_librdata_types[types[name]]]

(***************************************************************************)
(* transform_data                                                          *)
(*                                                                         *)
(* A working Series is [ref, dtype, vals]: ref = 0 when it owns its        *)
(* buffer, ref = j when it shares the buffer of the frame's column j, so   *)
(* that a write through .loc lands in the frame.                           *)
(***************************************************************************)
\* df[column]: the column as a Series on the frame's own buffer
GetColumn(frame, j) ==
    [ref |-> j, dtype |-> frame.data[j].dtype, vals |-> frame.data[j].vals]

\* Copy with the copy left out: the Series still shares the frame's buffer.
CopyShares(s) == s

\* Series.copy(): the same entries in a buffer of its own
Copy(s) == [s EXCEPT !.ref = 0]

\* pd_series.loc[mask] = values: the write is in place.  Text or a Python int
\* stored in a typed buffer turns it into an object buffer.
LocAssign(frame, s, mask, new) ==
    LET any == \E i \in 1..Len(s.vals) : mask[i]
        vals == [i \in 1..Len(s.vals) |-> IF mask[i] THEN new[i] ELSE s.vals[i]]
        dtype == IF any THEN "object" ELSE s.dtype
    IN [frame |-> IF s.ref = 0 THEN frame
                  ELSE [frame EXCEPT !.data[s.ref] = [dtype |-> dtype, vals |-> vals]],
        series |-> [s EXCEPT !.dtype = dtype, !.vals = vals]]

Transformed(frame, s) == [ok |-> TRUE, frame |-> frame, series |-> s]
TransformRaises(frame, s) == [ok |-> FALSE, frame |-> frame, series |-> s]

\* lines 126-128 and 132-134: the sentinel for the missing entries when
\* has_missing, then astype(np.int32), which gives a new Series and raises on
\* an entry that is still missing.
FillAndNarrow(frame, s, has_missing) ==
    LET n == Len(s.vals)
        w == IF has_missing
             THEN LocAssign(frame, s, [i \in 1..n |-> IsNa(s.vals[i])],
                            [i \in 1..n |-> Val("int", librdata_min_integer)])
             ELSE [frame |-> frame, series |-> s]
    IN IF \E i \in 1..n : IsNa(w.series.vals[i])
       THEN TransformRaises(w.frame, w.series)
       ELSE Transformed(w.frame,
                        [ref |-> 0, dtype |-> "int32",
                         vals |-> [i \in 1..n |-> AsInt32(w.series.vals[i])]])

\* line 138: str(x) into every entry that is not missing; the texts are
\* computed before the write, so a raising __str__ leaves the Series as it was.
Stringify(frame, s) ==
    LET n == Len(s.vals)
    IN IF \E i \in 1..n : ~IsNa(s.vals[i]) /\ StrRaises(s.vals[i])
       THEN TransformRaises(frame, s)
       ELSE LET w == LocAssign(frame, s, [i \in 1..n |-> ~IsNa(s.vals[i])],
                               [i \in 1..n |-> Str(s.vals[i])])
            IN Transformed(w.frame, w.series)

\* lines 144 and 147: x.strftime(format) into every entry that is not missing
Format(frame, s, format) ==
    LET n == Len(s.vals)
        w == LocAssign(frame, s, [i \in 1..n |-> ~IsNa(s.vals[i])],
                       [i \in 1..n |-> Strftime(s.vals[i], format)])
    IN Transformed(w.frame, w.series)

\* transform_data with the sentinel written into NUMERIC columns as well.
transform_data_fills_numeric(frame, pd_series, dtype, has_missing, dateformat, datetimeformat) ==
    IF dtype \in {"INTEGER", "LOGICAL"} THEN FillAndNarrow(frame, pd_series, has_missing)
    ELSE IF dtype = "NUMERIC" THEN FillAndNarrow(frame, pd_series, TRUE)
    ELSE IF dtype = "CHARACTER" THEN Transformed(frame, pd_series)
    ELSE IF dtype = "OBJECT" THEN Stringify(frame, pd_series)
    ELSE IF dtype = "DATE" THEN Format(frame, pd_series, dateformat)
    ELSE IF dtype = "DATETIME" THEN Format(frame, pd_series, datetimeformat)
    ELSE TransformRaises(frame, pd_series)

transform_data(frame, pd_series, dtype, has_missing, dateformat, datetimeformat) ==
    IF dtype = "INTEGER" THEN FillAndNarrow(frame, pd_series, has_missing)
    ELSE IF dtype = "NUMERIC" THEN Transformed(frame, pd_series)
    ELSE IF dtype = "LOGICAL" THEN FillAndNarrow(frame, pd_series, has_missing)
    ELSE IF dtype = "CHARACTER" THEN Transformed(frame, pd_series)
    ELSE IF dtype = "OBJECT" THEN Stringify(frame, pd_series)
    ELSE IF dtype = "DATE" THEN Format(frame, pd_series, dateformat)
    ELSE IF dtype = "DATETIME" THEN Format(frame, pd_series, datetimeformat)
    ELSE TransformRaises(frame, pd_series)

\* write_r lines 180-182 for the column at position j: copy, transform, tolist
TransformedColumn(frame, j, types, missing, dateformat, datetimeformat) ==
    LET col == Copy(GetColumn(frame, j))
        r == transform_data(frame, col, types[frame.columns[j]], missing[j],
                            dateformat, datetimeformat)
    IN [ok |-> r.ok, frame |-> r.frame, tcol |-> ToList(r.series)]

(***************************************************************************)
(* Inputs                                                                  *)
(***************************************************************************)
\* The entries a column of each dtype is drawn from.
ElementsOf(dtype) ==
    CASE dtype = "int32" -> {Val("np.int32", 1), Val("np.int32", 2)}
      [] dtype = "int64" -> {Val("np.int64", 1)}
      [] dtype = "float64" -> {Val("np.float64", 1), NaN}
      [] dtype = "bool" -> {Val("np.bool_", 0), Val("np.bool_", 1)}
      [] dtype = "datetime64[ns]" -> {Val("Timestamp", 1), NaT}
      [] dtype = "timedelta64[ns]" -> {Val("Timedelta", 1)}
      [] dtype = "object" -> {None, Val("np.int32", 1), Val("float", 1), Val("bool", 1),
                              Val("str", 1), Val("date", 1), Val("datetime", 1),
                              Val("int", 1), Val("Unprintable", 0)}

DTypes == {"int32", "int64", "float64", "bool", "datetime64[ns]",
           "timedelta64[ns]", "object"}

\* The entries of the tables the write operations are run on: fewer than
\* above, with a missing entry, entries of two types and one str() fails on.
TableElementsOf(dtype) ==
    CASE dtype = "int32" -> {Val("np.int32", 1)}
      [] dtype = "float64" -> {Val("np.float64", 1), NaN}
      [] dtype = "object" -> {None, Val("bool", 1), Val("int", 1), Val("Unprintable", 0)}

TableDTypes == {"int32", "float64", "object"}

ColumnsOfType(dtype, elems, n) == {[dtype |-> dtype, vals |-> v] : v \in [1..n -> elems]}

\* Every one-column frame of n rows over DTypes
OneColumnFrames(n) ==
    {[index |-> MakeIndex(kind, n), columns |-> <<ColName(1)>>, data |-> <<c>>] :
        kind \in IndexKinds,
        c \in UNION {ColumnsOfType(d, ElementsOf(d), n) : d \in DTypes}}

\* The columns of n rows over TableDTypes
TableColumns(n) == UNION {ColumnsOfType(t, TableElementsOf(t), n) : t \in TableDTypes}

\* The frame of the given index kind and columns, n rows each
Frame(kind, n, d) ==
    [index |-> MakeIndex(kind, n), columns |-> [j \in 1..Len(d) |-> ColName(j)], data |-> d]

Shapes == {<<n, c>> \in (0..MaxRows) \X (0..MaxCols) : n * c <= MaxCells}

\* A df_name that is None is written "None"; it and "" are falsy.
Names == {"dataset", "", "None"}
Falsy(name) == name \in {"", "None"}

(***************************************************************************)
(* Storage Writer calls, in the order they were made                       *)
(***************************************************************************)
Call(fn, row, col, val, typ, name, ok) ==
    [fn |-> fn, row |-> row, col |-> col, val |-> val, typ |-> typ, name |-> name, ok |-> ok]

(***************************************************************************)
(* State                                                                   *)
(***************************************************************************)
\* Before a write operation is called the caller holds a table; df_in keeps
\* what it held then.
Init ==
    /\ pc = "idle"
    /\ args = [op |-> "", path_is_str |-> TRUE, df_is_frame |-> TRUE, df_name |-> "",
               file_format |-> "", dateformat |-> "", datetimeformat |-> ""]
    /\ \E s \in Shapes, kind \in IndexKinds :
         \E d \in [1..s[2] -> TableColumns(s[1])] : df = Frame(kind, s[1], d)
    /\ df_in = df
    /\ pyreadr_types = <<>>
    /\ hasmissing = <<>>
    /\ librdata_types = <<>>
    /\ calls = <<>>
    /\ indx = 0
    /\ tcol = <<>>
    /\ row_indx = 0
    /\ err = ""

(***************************************************************************)
(* pyreadr.py: write_rdata and write_rds up to the call of write_r         *)
(***************************************************************************)
\* The checks of write_rdata without the check of df_name.
ValidRdataNoName(name, is_frame, is_str) == is_frame /\ is_str

\* lines 104-116: the checks of write_rdata
ValidRdata(name, is_frame, is_str) == ~Falsy(name) /\ is_frame /\ is_str

\* lines 139-146: the checks of write_rds
ValidRds(is_frame, is_str) == is_frame /\ is_str

\* The arguments are bound, and write_r is entered when they are valid.
Enter(op, format, name, is_frame, is_str, valid) ==
    /\ pc = "idle"
    /\ args' = [op |-> op, path_is_str |-> is_str, df_is_frame |-> is_frame,
                df_name |-> name, file_format |-> format,
                dateformat |-> "%Y-%m-%d", datetimeformat |-> "%Y-%m-%d %H:%M:%S"]
    /\ pc' = IF valid THEN "write_r" ELSE "raised"
    /\ err' = IF valid THEN "" ELSE "validation"
    /\ UNCHANGED <<df, df_in, pyreadr_types, hasmissing, librdata_types, calls, indx,
                   tcol, row_indx>>

\* The table argument is the caller's table (is_frame) or not a data frame.
write_rdata ==
    \E name \in Names, is_frame \in BOOLEAN, is_str \in BOOLEAN :
        Enter("write_rdata", "rdata", name, is_frame, is_str,
              ValidRdata(name, is_frame, is_str))

write_rds ==
    \E is_frame \in BOOLEAN, is_str \in BOOLEAN :
        Enter("write_rds", "rds", "", is_frame, is_str, ValidRds(is_frame, is_str))

(***************************************************************************)
(* PyreadrWriter.write_r, one action per statement                         *)
(***************************************************************************)
Raise(what) ==
    /\ pc' = "raised"
    /\ err' = what

\* A call of the Storage Writer: it is made, and it returns or raises.
WriterCall(c, ok, next) ==
    /\ calls' = Append(calls, [c EXCEPT !.ok = ok])
    /\ IF ok THEN pc' = next /\ err' = err ELSE Raise("writer")

\* write_r with open called before the columns are classified.
ClassifyAfterOpen ==
    /\ pc = "write_r"
    /\ calls' = Append(calls, Call("open", 0, 0, None, args.file_format, "path", TRUE))
    /\ LET r == get_pyreadr_column_types(df)
       IN IF r.ok
          THEN /\ pyreadr_types' = r.result
               /\ hasmissing' = r.has_missing_values
               /\ librdata_types' = pyreadr_types_to_librdata_types(r.result)
               /\ pc' = "set_row_count"
               /\ err' = err
          ELSE /\ Raise("classify")
               /\ UNCHANGED <<pyreadr_types, hasmissing, librdata_types>>
    /\ UNCHANGED <<args, df, df_in, indx, tcol, row_indx>>

\* lines 168-170
Classify ==
    /\ pc = "write_r"
    /\ LET r == get_pyreadr_column_types(df)
       IN IF r.ok
          THEN /\ pyreadr_types' = r.result
               /\ hasmissing' = r.has_missing_values
               /\ librdata_types' = pyreadr_types_to_librdata_types(r.result)
               /\ pc' = "open"
               /\ err' = err
          ELSE /\ Raise("classify")
               /\ UNCHANGED <<pyreadr_types, hasmissing, librdata_types>>
    /\ UNCHANGED <<args, df, df_in, calls, indx, tcol, row_indx>>

\* The column loops of lines 175 and 179 are over the frame's columns.
AfterTableName(frame) == IF NCols(frame) > 0 THEN "add_column" ELSE "close"
AfterAddColumn(frame, i) == IF i + 1 < NCols(frame) THEN "add_column" ELSE "transform"
AfterColumn(frame, i) == IF i + 1 < NCols(frame) THEN "transform" ELSE "close"

\* line 172
Open ==
    /\ pc = "open"
    /\ \E ok \in BOOLEAN :
        WriterCall(Call("open", 0, 0, None, args.file_format, "path", TRUE), ok, "set_row_count")
    /\ UNCHANGED <<args, df, df_in, pyreadr_types, hasmissing, librdata_types, indx, tcol, row_indx>>

\* set_row_count called with the number of columns, df.shape[1].
SetRowCountOfColumns ==
    /\ pc = "set_row_count"
    /\ \E ok \in BOOLEAN :
        WriterCall(Call("set_row_count", NCols(df), 0, None, "", "", TRUE), ok, "set_table_name")
    /\ UNCHANGED <<args, df, df_in, pyreadr_types, hasmissing, librdata_types, indx, tcol, row_indx>>

\* line 173
SetRowCount ==
    /\ pc = "set_row_count"
    /\ \E ok \in BOOLEAN :
        WriterCall(Call("set_row_count", NRows(df), 0, None, "", "", TRUE), ok, "set_table_name")
    /\ UNCHANGED <<args, df, df_in, pyreadr_types, hasmissing, librdata_types, indx, tcol, row_indx>>

\* line 174
SetTableName ==
    /\ pc = "set_table_name"
    /\ \E ok \in BOOLEAN :
        WriterCall(Call("set_table_name", 0, 0, None, "", args.df_name, TRUE), ok,
                   AfterTableName(df))
    /\ indx' = 0
    /\ UNCHANGED <<args, df, df_in, pyreadr_types, hasmissing, librdata_types, tcol, row_indx>>

\* lines 175-177, one turn of the loop
AddColumn ==
    /\ pc = "add_column"
    /\ LET col_name == df.columns[indx + 1]
           curtype == librdata_types[col_name]
       IN \E ok \in BOOLEAN :
            /\ WriterCall(Call("add_column", 0, 0, None, curtype, ToString(col_name), TRUE), ok,
                          AfterAddColumn(df, indx))
            /\ indx' = IF ok /\ indx + 1 < NCols(df) THEN indx + 1 ELSE 0
    /\ UNCHANGED <<args, df, df_in, pyreadr_types, hasmissing, librdata_types, tcol, row_indx>>

\* lines 179-183, for the column at indx
TransformColumn ==
    /\ pc = "transform"
    /\ LET r == TransformedColumn(df, indx + 1, pyreadr_types, hasmissing,
                                  args.dateformat, args.datetimeformat)
       IN /\ df' = r.frame
          /\ IF r.ok
             THEN /\ tcol' = r.tcol
                  /\ err' = err
                  /\ IF Len(r.tcol) > 0
                     THEN pc' = "insert_value" /\ indx' = indx
                     ELSE /\ pc' = AfterColumn(df, indx)
                          /\ indx' = IF indx + 1 < NCols(df) THEN indx + 1 ELSE indx
             ELSE /\ Raise("transform")
                  /\ UNCHANGED <<tcol, indx>>
    /\ row_indx' = 0
    /\ UNCHANGED <<args, df_in, pyreadr_types, hasmissing, librdata_types, calls>>

\* insert_value called with the entry of the column instead of that of tcol.
InsertValueUntransformed ==
    /\ pc = "insert_value"
    /\ LET curtype == librdata_types[df.columns[indx + 1]]
           last == row_indx + 1 >= Len(tcol)
       IN \E ok \in BOOLEAN :
            /\ WriterCall(Call("insert_value", row_indx, indx,
                               df.data[indx + 1].vals[row_indx + 1], curtype, "", TRUE),
                          ok, IF last THEN AfterColumn(df, indx) ELSE "insert_value")
            /\ row_indx' = IF ok /\ ~last THEN row_indx + 1 ELSE row_indx
            /\ indx' = IF ok /\ last /\ indx + 1 < NCols(df) THEN indx + 1 ELSE indx
    /\ UNCHANGED <<args, df, df_in, pyreadr_types, hasmissing, librdata_types, tcol>>

\* lines 184-185, one turn of the inner loop
InsertValue ==
    /\ pc = "insert_value"
    /\ LET curtype == librdata_types[df.columns[indx + 1]]
           last == row_indx + 1 >= Len(tcol)
       IN \E ok \in BOOLEAN :
            /\ WriterCall(Call("insert_value", row_indx, indx, tcol[row_indx + 1], curtype, "", TRUE),
                          ok, IF last THEN AfterColumn(df, indx) ELSE "insert_value")
            /\ row_indx' = IF ok /\ ~last THEN row_indx + 1 ELSE row_indx
            /\ indx' = IF ok /\ last /\ indx + 1 < NCols(df) THEN indx + 1 ELSE indx
    /\ UNCHANGED <<args, df, df_in, pyreadr_types, hasmissing, librdata_types, tcol>>

\* line 187
Close ==
    /\ pc = "close"
    /\ \E ok \in BOOLEAN :
        WriterCall(Call("close", 0, 0, None, "", "", TRUE), ok, "done")
    /\ UNCHANGED <<args, df, df_in, pyreadr_types, hasmissing, librdata_types, indx, tcol, row_indx>>

Next ==
    \/ write_rdata
    \/ write_rds
    \/ Classify
    \/ Open
    \/ SetRowCount
    \/ SetTableName
    \/ AddColumn
    \/ TransformColumn
    \/ InsertValue
    \/ Close

Spec == Init /\ [][Next]_vars

(***************************************************************************)
(* The classifier and the transformer on one column                        *)
(***************************************************************************)
InitColumn ==
    /\ pc = "classify"
    /\ args = [op |-> "", path_is_str |-> TRUE, df_is_frame |-> TRUE, df_name |-> "",
               file_format |-> "", dateformat |-> "%Y-%m-%d",
               datetimeformat |-> "%Y-%m-%d %H:%M:%S"]
    /\ df \in UNION {OneColumnFrames(n) : n \in 0..MaxRows}
    /\ df_in = df
    /\ pyreadr_types = <<>>
    /\ hasmissing = <<>>
    /\ librdata_types = <<>>
    /\ calls = <<>>
    /\ indx = 0
    /\ tcol = <<>>
    /\ row_indx = 0
    /\ err = ""

\* get_pyreadr_column_types and pyreadr_types_to_librdata_types on the frame
ClassifyOnly ==
    /\ pc = "classify"
    /\ LET r == get_pyreadr_column_types(df)
       IN IF r.ok
          THEN /\ pyreadr_types' = r.result
               /\ hasmissing' = r.has_missing_values
               /\ librdata_types' = pyreadr_types_to_librdata_types(r.result)
               /\ pc' = "classified"
               /\ err' = err
          ELSE /\ Raise("classify")
               /\ UNCHANGED <<pyreadr_types, hasmissing, librdata_types>>
    /\ UNCHANGED <<args, df, df_in, calls, indx, tcol, row_indx>>

\* copy, transform_data and tolist on the frame's column
TransformOnly ==
    /\ pc = "classified"
    /\ LET r == TransformedColumn(df, 1, pyreadr_types, hasmissing,
                                  args.dateformat, args.datetimeformat)
       IN /\ df' = r.frame
          /\ IF r.ok
             THEN tcol' = r.tcol /\ pc' = "transformed" /\ err' = err
             ELSE Raise("transform") /\ tcol' = tcol
    /\ UNCHANGED <<args, df_in, pyreadr_types, hasmissing, librdata_types, calls, indx, row_indx>>

NextColumn == ClassifyOnly \/ TransformOnly

SpecColumn == InitColumn /\ [][NextColumn]_vars

(***************************************************************************)
(* Properties                                                              *)
(***************************************************************************)
Tags == {"INTEGER", "NUMERIC", "LOGICAL", "CHARACTER", "OBJECT", "DATE", "DATETIME"}

CallsOf(fn) == {k \in 1..Len(calls) : calls[k].fn = fn}
OpenSucceeded == \E k \in CallsOf("open") : calls[k].ok
Exited == pc \in {"done", "raised"}

\* The cells insert_value was called for
Inserted == {<<calls[k].row, calls[k].col>> : k \in CallsOf("insert_value")}

\* The column the one-column specification classifies, as the caller gave it
TheColumn == df_in.data[1]
TheTag == pyreadr_types[df_in.columns[1]]
SomeMissing(vals) == \E i \in 1..Len(vals) : IsNa(vals[i])
SomePresent(vals) == \E i \in 1..Len(vals) : ~IsNa(vals[i])
SentinelValue == Val("int", librdata_min_integer)

\* C1: once open has succeeded, write_r has called close exactly once when it
\* exits, whether it returns or raises.
C1_CloseOnEveryExit ==
    (Exited /\ OpenSucceeded) => Cardinality(CallsOf("close")) = 1

\* C2: the classification of a column never raises: it ends with one tag and
\* one has-missing flag for the column.
C2_ClassificationNeverFails ==
    pc # "classify" =>
        /\ err # "classify"
        /\ TheTag \in Tags
        /\ hasmissing[1] \in BOOLEAN

\* The type of the first entry, in row order, that is not missing
ReferenceType(vals) ==
    vals[CHOOSE i \in 1..Len(vals) :
            ~IsNa(vals[i]) /\ \A j \in 1..(i - 1) : IsNa(vals[j])].t

\* C3: an object column with an entry that is not missing is tagged OBJECT
\* exactly when an entry that is not missing differs in type from the first
\* such entry, and otherwise gets the tag of that type.
C3_ReferenceIsFirstPresent ==
    (pc # "classify" /\ TheColumn.dtype = "object" /\ SomePresent(TheColumn.vals)) =>
        /\ err # "classify"
        /\ LET ref == ReferenceType(TheColumn.vals)
               mixed == \E i \in 1..Len(TheColumn.vals) :
                            ~IsNa(TheColumn.vals[i]) /\ TheColumn.vals[i].t # ref
           IN TheTag = IF mixed THEN "OBJECT" ELSE TagOfRuntimeType(ref)

\* C4: an object column whose entries are all missing is tagged LOGICAL for
\* every row count; with no rows its has-missing flag is False and its
\* transformed sequence is empty.
C4_AllMissingIsLogical ==
    (pc # "classify" /\ TheColumn.dtype = "object" /\ ~SomePresent(TheColumn.vals)) =>
        /\ err # "classify"
        /\ TheTag = "LOGICAL"
        /\ Len(TheColumn.vals) = 0 => (hasmissing[1] = FALSE /\ (pc = "transformed" => tcol = <<>>))

\* C5: at every step of a write operation, and after it returned or raised,
\* the caller's table holds the values it held before the call.
C5_CallerTableUnchanged == df = df_in

\* C5 witness: a write has completed in which a missing entry was replaced
\* by the sentinel and another in which text replaced an object.
C5_Witness ==
    /\ pc = "done"
    /\ \E k \in CallsOf("insert_value") : calls[k].val = SentinelValue
    /\ \E k \in CallsOf("insert_value") : calls[k].val = Str(Val("int", 1))

\* C6: a successful write_r has called open, set_row_count with the row
\* count, set_table_name, add_column for each column in column order with its
\* name and mapped primitive, then only insert_value, then close.
C6_CallOrder ==
    pc = "done" =>
        LET n == NCols(df_in) IN
        /\ Len(calls) >= n + 4
        /\ calls[1].fn = "open" /\ calls[1].typ = args.file_format
        /\ calls[2].fn = "set_row_count" /\ calls[2].row = NRows(df_in)
        /\ calls[3].fn = "set_table_name" /\ calls[3].name = args.df_name
        /\ \A j \in 1..n :
            /\ calls[3 + j].fn = "add_column"
            /\ calls[3 + j].name = ToString(df_in.columns[j])
            /\ calls[3 + j].typ = pyreadr_to_librdata_types[pyreadr_types[df_in.columns[j]]]
        /\ \A k \in (n + 4)..(Len(calls) - 1) : calls[k].fn = "insert_value"
        /\ calls[Len(calls)].fn = "close"
        /\ \A k \in 1..Len(calls) : calls[k].ok

\* C6 witness: a successful write of two columns and two rows
C6_Witness == pc = "done" /\ NCols(df_in) = 2 /\ NRows(df_in) = 2

\* C7: a successful write_r has called insert_value once for each cell of the
\* table and for nothing else, each time with the transformed value of that
\* cell and with indices below the declared row count and column count.
C7_OneInsertPerCell ==
    pc = "done" =>
        /\ \A r \in 0..(NRows(df_in) - 1), c \in 0..(NCols(df_in) - 1) :
            LET ks == {k \in CallsOf("insert_value") : calls[k].row = r /\ calls[k].col = c}
                want == TransformedColumn(df_in, c + 1, pyreadr_types, hasmissing,
                                          args.dateformat, args.datetimeformat).tcol[r + 1]
            IN /\ Cardinality(ks) = 1
               /\ \A k \in ks : calls[k].val = want
        /\ \A k \in CallsOf("insert_value") :
            /\ calls[k].row >= 0 /\ calls[k].col >= 0
            /\ \A q \in CallsOf("set_row_count") : calls[k].row < calls[q].row
            /\ calls[k].col < Cardinality(CallsOf("add_column"))
        /\ Cardinality(CallsOf("insert_value")) = NRows(df_in) * NCols(df_in)

\* C7 witness: a successful write of two columns and two rows in which a
\* value was transformed
C7_Witness ==
    /\ pc = "done" /\ NCols(df_in) = 2 /\ NRows(df_in) = 2
    /\ \E k \in CallsOf("insert_value") : calls[k].val = SentinelValue

\* C8: in the transformed column the sentinel stands for the missing entries
\* exactly when the tag is INTEGER or LOGICAL, where the other entries keep
\* their number; under every other tag a missing entry stays a missing marker.
C8_SentinelOnlyForIntegerLogical ==
    pc = "transformed" =>
        \A i \in 1..Len(TheColumn.vals) :
            LET x == TheColumn.vals[i] IN
            /\ Len(tcol) = Len(TheColumn.vals)
            /\ IF TheTag \in {"INTEGER", "LOGICAL"}
               THEN IF IsNa(x) THEN tcol[i] = SentinelValue
                    ELSE ~IsNa(tcol[i]) /\ tcol[i].v = x.v
               ELSE IsNa(x) => (IsNa(tcol[i]) /\ tcol[i] = x)

\* C8 witness: a transformed INTEGER column with a missing and a present entry
C8_Witness ==
    /\ pc = "transformed"
    /\ TheTag = "INTEGER"
    /\ SomeMissing(TheColumn.vals) /\ SomePresent(TheColumn.vals)

\* The argument checks the two write operations make, as the documentation
\* of the operations states them
Rejected ==
    \/ args.op = "write_rdata" /\ (Falsy(args.df_name) \/ ~args.df_is_frame \/ ~args.path_is_str)
    \/ args.op = "write_rds" /\ (~args.df_is_frame \/ ~args.path_is_str)

\* C9: a write operation called with a missing or empty name (write_rdata),
\* with a table that is no data frame or with a path that is no string raises
\* a validation error, and no Storage Writer call is ever made.
C9_ValidationBeforeWriter ==
    Rejected => (pc = "raised" /\ err = "validation" /\ calls = <<>>)

\* C9 witness: write_rdata was called with an empty name on a data frame
C9_Witness ==
    /\ args.op = "write_rdata" /\ args.df_name = ""
    /\ args.df_is_frame /\ args.path_is_str
    /\ pc = "raised"

\* C10: classification and mapping are complete before open; a failure of
\* the classifier leaves no writer call made; the transformation of a column
\* comes after open and all add_column calls, and when it fails at column k
\* the cells inserted are exactly those of the columns before k.
C10_ClassifyFirstTransformLate ==
    /\ err = "classify" => calls = <<>>
    /\ pc = "open" =>
        /\ calls = <<>>
        /\ DOMAIN pyreadr_types = {df.columns[j] : j \in 1..NCols(df)}
        /\ DOMAIN librdata_types = DOMAIN pyreadr_types
    /\ (pc = "transform" \/ err = "transform") =>
        /\ OpenSucceeded
        /\ Cardinality(CallsOf("add_column")) = NCols(df_in)
        /\ Inserted = {<<r, c>> \in (0..(NRows(df_in) - 1)) \X (0..(NCols(df_in) - 1)) : c < indx}

\* C10 witness: the transformation of the second column failed after the
\* cells of the first were inserted
C10_Witness == err = "transform" /\ indx = 1 /\ NRows(df_in) = 2

====
